---- MODULE Spec2Model ----
(***************************************************************************)
(* Model of sentiment.py: an Excel worksheet function that cleans a text,  *)
(* counts its unigrams and bigrams over a fixed vocabulary and returns the *)
(* positive-class probability of a pickled classifier.                     *)
(*                                                                         *)
(* A text is a sequence of characters; a character is a one-character      *)
(* string; a character outside ASCII, and the three ASCII characters a     *)
(* string constant cannot hold, are written by code point ("U+2019" is the *)
(* right single quotation mark, "U+0022" the double quote).  A probability *)
(* is an integer number of thousandths.                                    *)
(***************************************************************************)
EXTENDS Integers, Sequences, FiniteSets, Bags, TLC

VARIABLES disk, state, model, vocabulary, vocabulary_, calls, returned

vars == <<disk, state, model, vocabulary, vocabulary_, calls, returned>>

\* the value None of a translation table
None == "None"

(***************************************************************************)
(* Bounds of the model.                                                    *)
(***************************************************************************)
\* longest text drawn character by character from Alphabet
MaxLen == 3
\* most words of a text drawn word by word from WordPool
MaxWords == 3
\* most calls of analyze_text in one behaviour of the worksheet
MaxCalls == 3

(***************************************************************************)
(* Characters.                                                             *)
(***************************************************************************)
ascii_uppercase ==
    <<"A", "B", "C", "D", "E", "F", "G", "H", "I", "J", "K", "L", "M",
      "N", "O", "P", "Q", "R", "S", "T", "U", "V", "W", "X", "Y", "Z">>

ascii_lowercase ==
    <<"a", "b", "c", "d", "e", "f", "g", "h", "i", "j", "k", "l", "m",
      "n", "o", "p", "q", "r", "s", "t", "u", "v", "w", "x", "y", "z">>

digits == {"0", "1", "2", "3", "4", "5", "6", "7", "8", "9"}

\* string.punctuation
punctuation ==
    {"!", "U+0022", "#", "$", "%", "&", "'", "(", ")", "*", "+", ",", "-", ".",
     "/", ":", ";", "<", "=", ">", "?", "@", "[", "U+005C", "]", "^", "_", "U+0060",
     "{", "|", "}", "~"}

Range(f) == {f[i] : i \in DOMAIN f}

\* the regular expression class \w: letters, digits and the underscore
word_char(c) ==
    c \in Range(ascii_uppercase) \cup Range(ascii_lowercase) \cup digits \cup {"_"}

(***************************************************************************)
(* clean_text: text.translate(table).lower(), then re.sub(' +', ' ', ...). *)
(***************************************************************************)
\* str.maketrans('', '', string.punctuation): every punctuation character
\* is mapped to None, which translate deletes
table == [c \in punctuation |-> None]

\* translate with a table that maps each of its characters to a space
RECURSIVE translate_to_space(_, _)
translate_to_space(text, tbl) ==
    IF text = <<>> THEN <<>>
    ELSE (IF Head(text) \in DOMAIN tbl THEN <<" ">> ELSE <<Head(text)>>)
             \o translate_to_space(Tail(text), tbl)

RECURSIVE translate(_, _)
translate(text, tbl) ==
    IF text = <<>> THEN <<>>
    ELSE LET c == Head(text)
             rest == translate(Tail(text), tbl)
         IN IF c \in DOMAIN tbl
            THEN (IF tbl[c] = None THEN rest ELSE <<tbl[c]>> \o rest)
            ELSE <<c>> \o rest

lower_char(c) ==
    IF c \in Range(ascii_uppercase)
    THEN ascii_lowercase[CHOOSE i \in DOMAIN ascii_uppercase : ascii_uppercase[i] = c]
    ELSE c

lower(text) == [i \in DOMAIN text |-> lower_char(text[i])]

\* the rest of text after its leading run of the character c
RECURSIVE skip_run(_, _)
skip_run(text, c) ==
    IF text # <<>> /\ Head(text) = c THEN skip_run(Tail(text), c) ELSE text

\* re.sub(' +', ' ', text): scanning from the left, each maximal run of
\* spaces is one match and is replaced by one space
RECURSIVE re_sub_spaces(_)
re_sub_spaces(text) ==
    IF text = <<>> THEN <<>>
    ELSE IF Head(text) = " "
         THEN <<" ">> \o re_sub_spaces(skip_run(Tail(text), " "))
         ELSE <<Head(text)>> \o re_sub_spaces(Tail(text))

\* clean_text with the runs of spaces folded before the punctuation is deleted
clean_text_fold_first(text) == lower(translate(re_sub_spaces(text), table))

clean_text(text) == re_sub_spaces(lower(translate(text, table)))

(***************************************************************************)
(* vectorizer: CountVectorizer(ngram_range=(1, 2), stop_words=[...],       *)
(* vocabulary=...), every other parameter at its default: lowercase=True,  *)
(* analyzer='word', token_pattern=r"(?u)\b\w\w+\b".                        *)
(***************************************************************************)
stop_words ==
    { <<"i">>, <<"w", "e">>, <<"y", "o", "u">>, <<"t", "h", "e">>,
      <<"a", "n", "d">>, <<"a", "m">>, <<"a", "r", "e">> }

ngram_range == <<1, 2>>

\* the default preprocessor: lowercase=True, strip_accents=None
preprocess(doc) == lower(doc)

\* \b before a \w: position i holds a word character and position i-1 does not
word_start(doc, i) ==
    /\ i \in DOMAIN doc
    /\ word_char(doc[i])
    /\ (i = 1 \/ ~word_char(doc[i - 1]))

\* the last position of the greedy match of \w+ that starts at position i
RECURSIVE word_end(_, _)
word_end(doc, i) ==
    IF i + 1 \in DOMAIN doc /\ word_char(doc[i + 1]) THEN word_end(doc, i + 1) ELSE i

\* re.findall(r"(?u)\b\w\w+\b", doc) from position i on: a match needs two
\* word characters at least; after a match the scan resumes behind it, after
\* a failure at the next position
RECURSIVE findall_token_pattern(_, _)
findall_token_pattern(doc, i) ==
    IF i > Len(doc) THEN <<>>
    ELSE IF word_start(doc, i) /\ word_end(doc, i) - i + 1 >= 2
         THEN <<SubSeq(doc, i, word_end(doc, i))>>
                  \o findall_token_pattern(doc, word_end(doc, i) + 1)
         ELSE findall_token_pattern(doc, i + 1)

\* re.findall(r"(?u)\b\w+\b", doc) from position i on: one word character
\* is enough for a match
RECURSIVE findall_single(_, _)
findall_single(doc, i) ==
    IF i > Len(doc) THEN <<>>
    ELSE IF word_start(doc, i)
         THEN <<SubSeq(doc, i, word_end(doc, i))>>
                  \o findall_single(doc, word_end(doc, i) + 1)
         ELSE findall_single(doc, i + 1)

\* the tokenizer of token_pattern=r"(?u)\b\w+\b"
tokenize_single(doc) == findall_single(doc, 1)

\* the tokenizer of the default token_pattern
tokenize(doc) == findall_token_pattern(doc, 1)

\* " ".join(tokens)
RECURSIVE space_join(_)
space_join(tokens) ==
    IF tokens = <<>> THEN <<>>
    ELSE IF Len(tokens) = 1 THEN Head(tokens)
         ELSE Head(tokens) \o <<" ">> \o space_join(Tail(tokens))

\* for i in range(n_original_tokens - n + 1): join(original_tokens[i : i + n])
ngrams_of_size(tokens, n) ==
    [i \in 1..(Len(tokens) - n + 1) |-> space_join(SubSeq(tokens, i, i + n - 1))]

\* for n in range(lo, hi + 1): the n-grams of that size, in order
RECURSIVE ngrams_in_range(_, _, _)
ngrams_in_range(tokens, lo, hi) ==
    IF lo > hi THEN <<>>
    ELSE ngrams_of_size(tokens, lo) \o ngrams_in_range(tokens, lo + 1, hi)

Min(a, b) == IF a <= b THEN a ELSE b

\* _word_ngrams without the stop-word filter: every n-gram of the token
\* stream, stop-words included
word_ngrams_unfiltered(tokens, stop) ==
    ngrams_in_range(tokens, ngram_range[1], Min(ngram_range[2], Len(tokens)))

\* _word_ngrams with the filter applied to the unigrams only: the bigrams
\* are built from the unfiltered stream
word_ngrams_filter_after(tokens, stop) ==
    SelectSeq(tokens, LAMBDA w : w \notin stop)
        \o ngrams_in_range(tokens, ngram_range[1] + 1, Min(ngram_range[2], Len(tokens)))

\* _word_ngrams: the stop-words are removed first, then the n-grams of
\* every size of ngram_range are built from what is left
word_ngrams(tokens, stop) ==
    LET original_tokens == SelectSeq(tokens, LAMBDA w : w \notin stop)
    IN ngrams_in_range(original_tokens, ngram_range[1],
                       Min(ngram_range[2], Len(original_tokens)))

\* build_analyzer(): preprocess, tokenize, n-grams
analyze(doc) == word_ngrams(tokenize(preprocess(doc)), stop_words)

\* _count_vocab with fixed_vocab=False: a feature the vocabulary lacks gets
\* the next free index
RECURSIVE count_vocab_vocabulary_growing(_, _)
count_vocab_vocabulary_growing(features, vocab) ==
    IF features = <<>> THEN vocab
    ELSE LET f == Head(features)
             grown == IF f \in DOMAIN vocab THEN vocab
                      ELSE [g \in DOMAIN vocab \cup {f} |->
                               IF g = f THEN Cardinality(DOMAIN vocab) ELSE vocab[g]]
         IN count_vocab_vocabulary_growing(Tail(features), grown)

\* _count_vocab with fixed_vocab=True: the vocabulary the counting leaves
\* behind is the vocabulary it was given
count_vocab_vocabulary(features, vocab) == vocab

\* the feature_counter of _count_vocab: for each feature in turn, its
\* column's count goes up by one; a KeyError (a feature the vocabulary
\* lacks) skips the feature
RECURSIVE feature_counter(_, _, _)
feature_counter(features, vocab, counter) ==
    IF features = <<>> THEN counter
    ELSE LET f == Head(features)
         IN IF f \in DOMAIN vocab
            THEN feature_counter(Tail(features), vocab,
                     [counter EXCEPT ![vocab[f]] = @ + 1])
            ELSE feature_counter(Tail(features), vocab, counter)

\* the one row of the matrix of shape (1, len(vocabulary)); column j of the
\* matrix is element j + 1 of the row
count_vocab(features, vocab) ==
    LET n == Cardinality(DOMAIN vocab)
        counter == feature_counter(features, vocab, [j \in 0..(n - 1) |-> 0])
    IN [k \in 1..n |-> counter[k - 1]]

(***************************************************************************)
(* model: the unpickled classifier.  Its class is not in the source; it is *)
(* modelled as the probabilistic linear model of two classes that the      *)
(* design describes: coefficients, an intercept and the logistic function. *)
(***************************************************************************)
RECURSIVE dot(_, _)
dot(coef, X) ==
    IF coef = <<>> THEN 0 ELSE Head(coef) * Head(X) + dot(Tail(coef), Tail(X))

decision_function(m, X) == m.intercept + dot(m.coef, X)

\* the logistic function 1 / (1 + exp(-z)) in thousandths, rounded, for an
\* integer z: element z + 8 of the sequence for -7 <= z <= 7
expit_thousandths ==
    <<1, 2, 7, 18, 47, 119, 269, 500, 731, 881, 953, 982, 993, 998, 999>>

expit(z) ==
    IF z <= -8 THEN 0
    ELSE IF z >= 8 THEN 1000
         ELSE expit_thousandths[z + 8]

\* one row of two columns, the probabilities of class 0 and of class 1; a
\* row of another length than the coefficients is refused
predict_proba(m, X) ==
    IF Len(X) # Len(m.coef)
    THEN [raised |-> "ValueError", value |-> <<>>]
    ELSE [raised |-> "",
          value |-> <<<<1000 - expit(decision_function(m, X)),
                        expit(decision_function(m, X))>>>>]

(***************************************************************************)
(* The two pickle files, and pickle.load.  A file is a record: its status  *)
(* ("ok", "missing", "corrupt") and, when ok, the object pickled in it.    *)
(* A name that is not bound yet is the empty sequence, a bound one the     *)
(* sequence of its one value.                                              *)
(***************************************************************************)
Unset == <<>>

\* pickle.load(open(path, 'rb')) with the exception swallowed: a file that
\* cannot be loaded yields an empty object
pickle_load_swallowing(file) == [raised |-> FALSE, value |-> file.content]

\* pickle.load(open(path, 'rb')): open raises for a missing file, load
\* raises for one that does not unpickle; otherwise the pickled object
pickle_load(file) ==
    IF file.status # "ok"
    THEN [raised |-> TRUE, value |-> <<>>]
    ELSE [raised |-> FALSE, value |-> file.content]

(***************************************************************************)
(* analyze_text, one step for each call it makes.  A result is <<"ok", p>> *)
(* with p the number returned, or <<e>> with e the exception raised.       *)
(***************************************************************************)
Threads == {"t1", "t2"}

idle ==
    [pc |-> "idle", text |-> <<>>, cleaned |-> <<>>, tokens |-> <<>>,
     features |-> <<>>, X |-> <<>>, result |-> <<>>]

\* the row kept in one module-level buffer: a call that stores its row
\* overwrites the row of every call that has not yet used its own
store_row_shared(cs, t, tokens, features, row) ==
    [u \in DOMAIN cs |->
        IF u = t
        THEN [cs[u] EXCEPT !.pc = "predict_proba", !.tokens = tokens,
                           !.features = features, !.X = row]
        ELSE IF cs[u].pc = "predict_proba" THEN [cs[u] EXCEPT !.X = row]
             ELSE cs[u]]

\* the row that transform returns is a temporary of the call that made it
store_row(cs, t, tokens, features, row) ==
    [cs EXCEPT ![t].pc = "predict_proba", ![t].tokens = tokens,
               ![t].features = features, ![t].X = row]

\* [0][1] times 100: a percentage
positive_class_percent(proba) == proba[1][2] * 100

\* [0][1]: row 0, column 1 of the matrix of probabilities
positive_class(proba) == proba[1][2]

\* analyze_text(text) run from its first step to its last with nothing in
\* between, over the classifier m and the vocabulary vocab
analyze_text(text, m, vocab) ==
    LET proba == predict_proba(m, count_vocab(analyze(clean_text(text)), vocab))
    IN IF proba.raised # "" THEN <<proba.raised>>
       ELSE <<"ok", positive_class(proba.value)>>

\* the calls started so far: those returned and those under way
CallsStarted ==
    BagCardinality(returned) + Cardinality({t \in Threads : calls[t].pc # "idle"})

\* the host calls analyze_text(text) on thread t; the function exists once
\* the module has been executed to its end
Call(t, text) ==
    /\ state = "Ready"
    /\ calls[t].pc = "idle"
    /\ CallsStarted < MaxCalls
    /\ calls' = [calls EXCEPT ![t] = [idle EXCEPT !.pc = "clean_text", !.text = text]]
    /\ UNCHANGED <<disk, state, model, vocabulary, vocabulary_, returned>>

\* clean_text(text)
CleanText(t) ==
    /\ calls[t].pc = "clean_text"
    /\ calls' = [calls EXCEPT ![t].pc = "check_vocabulary",
                              ![t].cleaned = clean_text(calls[t].text)]
    /\ UNCHANGED <<disk, state, model, vocabulary, vocabulary_, returned>>

\* vectorizer.transform, _check_vocabulary: has the vectorizer a vocabulary_ ?
CheckVocabulary(t) ==
    /\ calls[t].pc = "check_vocabulary"
    /\ calls' = [calls EXCEPT ![t].pc =
                    IF vocabulary_ = Unset THEN "validate_vocabulary" ELSE "count_vocab"]
    /\ UNCHANGED <<disk, state, model, vocabulary, vocabulary_, returned>>

\* vectorizer.transform, _validate_vocabulary: vocabulary_ = dict(vocabulary)
ValidateVocabulary(t) ==
    /\ calls[t].pc = "validate_vocabulary"
    /\ vocabulary_' = vocabulary
    /\ calls' = [calls EXCEPT ![t].pc = "count_vocab"]
    /\ UNCHANGED <<disk, state, model, vocabulary, returned>>

\* vectorizer.transform, _count_vocab(raw_documents, fixed_vocab=True)
CountVocab(t) ==
    /\ calls[t].pc = "count_vocab"
    /\ LET tokens == tokenize(preprocess(calls[t].cleaned))
           features == analyze(calls[t].cleaned)
           vocab == count_vocab_vocabulary(features, vocabulary_[1])
       IN /\ vocabulary_' = <<vocab>>
          /\ calls' = store_row(calls, t, tokens, features, count_vocab(features, vocab))
    /\ UNCHANGED <<disk, state, model, vocabulary, returned>>

\* model.predict_proba(...)[0][1]
PredictProba(t) ==
    /\ calls[t].pc = "predict_proba"
    /\ LET proba == predict_proba(model[1], calls[t].X)
       IN calls' = [calls EXCEPT ![t].pc = "return",
                                 ![t].result = IF proba.raised # "" THEN <<proba.raised>>
                                               ELSE <<"ok", positive_class(proba.value)>>]
    /\ UNCHANGED <<disk, state, model, vocabulary, vocabulary_, returned>>

\* return: the host gets the result (or the exception)
Return(t) ==
    /\ calls[t].pc = "return"
    /\ returned' = returned (+) SetToBag({<<calls[t].text, calls[t].result>>})
    /\ calls' = [calls EXCEPT ![t] = idle]
    /\ UNCHANGED <<disk, state, model, vocabulary, vocabulary_>>

(***************************************************************************)
(* The module's top level: executed once, when the host imports it.        *)
(***************************************************************************)
\* model = pickle.load(open(model_path, 'rb'))
LoadModel ==
    /\ state = "Uninitialized"
    /\ LET loaded == pickle_load(disk.model_pkl)
       IN IF loaded.raised
          THEN state' = "Failed" /\ UNCHANGED model
          ELSE state' = "ModelLoaded" /\ model' = <<loaded.value>>
    /\ UNCHANGED <<disk, vocabulary, vocabulary_, calls, returned>>

\* vectorizer = CountVectorizer(..., vocabulary=pickle.load(open(vocab_path, 'rb')));
\* the module's last statements define the functions
LoadVocabulary ==
    /\ state = "ModelLoaded"
    /\ LET loaded == pickle_load(disk.vocabulary_pkl)
       IN IF loaded.raised
          THEN state' = "Failed" /\ UNCHANGED vocabulary
          ELSE state' = "Ready" /\ vocabulary' = <<loaded.value>>
    /\ UNCHANGED <<disk, model, vocabulary_, calls, returned>>

(***************************************************************************)
(* The inputs: the pickled artifacts of a training run, and the texts.     *)
(***************************************************************************)
\* {"good": 0, "bad": 1, "good movie": 2}
vocabulary_small ==
    (<<"g", "o", "o", "d">> :> 0)
        @@ (<<"b", "a", "d">> :> 1)
        @@ (<<"g", "o", "o", "d", " ", "m", "o", "v", "i", "e">> :> 2)

\* a vocabulary with unigrams, bigrams and n-grams that hold a stop-word
vocabulary_movies ==
    (<<"l", "o", "v", "e">> :> 0)
        @@ (<<"m", "o", "v", "i", "e">> :> 1)
        @@ (<<"l", "o", "v", "e", " ", "m", "o", "v", "i", "e">> :> 2)
        @@ (<<"l", "o", "v", "e", " ", "t", "h", "e">> :> 3)
        @@ (<<"t", "h", "e", " ", "m", "o", "v", "i", "e">> :> 4)
        @@ (<<"t", "h", "e">> :> 5)
        @@ (<<"d", "o", "n", "t">> :> 6)
        @@ (<<"s", "t", "o", "p">> :> 7)
        @@ (<<"a", "b">> :> 8)

\* the artifacts of one training run: a vocabulary and a classifier with
\* one coefficient for each column of it
Artifacts ==
    { [vocabulary |-> vocabulary_small,
       model |-> [coef |-> <<0, 0, 4>>, intercept |-> -2]],
      [vocabulary |-> vocabulary_movies,
       model |-> [coef |-> <<3, 2, 4, -1, -1, 1, -4, -4, 1>>, intercept |-> 0]] }

Hello_World == <<"H", "e", "l", "l", "o", ",", " ", " ", " ", "W", "o", "r", "l", "d", "!", "!">>
Dont_STOP == <<"D", "o", "n", "'", "t", " ", "S", "T", "O", "P">>
I_love_the_movie == <<"I", " ", "l", "o", "v", "e", " ", "t", "h", "e", " ", "m", "o", "v", "i", "e">>
This_is_a_good_movie == <<"T", "h", "i", "s", " ", "i", "s", " ", "a", " ", "g", "o", "o", "d", " ", "m", "o", "v", "i", "e">>

SpecExamples == {<<>>, Hello_World, Dont_STOP, I_love_the_movie, This_is_a_good_movie}

Alphabet == {"a", "B", " ", ",", "\t", "U+2019"}

\* every text of at most MaxLen characters of Alphabet
CharTexts == UNION {[1..n -> Alphabet] : n \in 0..MaxLen}

WordPool ==
    { <<"I">>, <<"l", "o", "v", "e">>, <<"t", "h", "e">>, <<"m", "o", "v", "i", "e">>,
      <<"g", "o", "o", "d">>, <<"a">>, <<"z", "z">>,
      <<"d", "o", "n", "U+2019", "t">> }

RECURSIVE Sentence(_)
Sentence(words) ==
    IF words = <<>> THEN <<>>
    ELSE IF Len(words) = 1 THEN words[1]
         ELSE words[1] \o <<" ">> \o Sentence(Tail(words))

\* every text of at most MaxWords words of WordPool, one space between two
WordTexts == {Sentence(ws) : ws \in UNION {[1..n -> WordPool] : n \in 0..MaxWords}}

Texts == SpecExamples \cup CharTexts \cup WordTexts

\* the texts of the worksheet's cells
SampleTexts == {<<>>, I_love_the_movie, <<"z", "z", " ", "t", "o", "p">>, <<"g", "o", "o", "d", " ", "m", "o", "v", "i", "e">>}

Files(content) ==
    { [status |-> "ok", content |-> content],
      [status |-> "missing", content |-> <<>>],
      [status |-> "corrupt", content |-> <<>>] }

(***************************************************************************)
(* The worksheet: the host imports the module, then calls analyze_text     *)
(* from its threads.                                                       *)
(***************************************************************************)
Init ==
    /\ \E a \in Artifacts :
          disk \in [model_pkl : Files(a.model), vocabulary_pkl : Files(a.vocabulary)]
    /\ state = "Uninitialized"
    /\ model = Unset
    /\ vocabulary = Unset
    /\ vocabulary_ = Unset
    /\ calls = [t \in Threads |-> idle]
    /\ returned = EmptyBag

Next ==
    \/ LoadModel
    \/ LoadVocabulary
    \/ \E t \in Threads :
          \/ \E text \in SampleTexts : Call(t, text)
          \/ CleanText(t)
          \/ CheckVocabulary(t)
          \/ ValidateVocabulary(t)
          \/ CountVocab(t)
          \/ PredictProba(t)
          \/ Return(t)

Spec == Init /\ [][Next]_vars

(***************************************************************************)
(* One call of analyze_text on a text of Texts, the module loaded.         *)
(***************************************************************************)
InitOneCall ==
    /\ \E a \in Artifacts :
          /\ disk = [model_pkl |-> [status |-> "ok", content |-> a.model],
                     vocabulary_pkl |-> [status |-> "ok", content |-> a.vocabulary]]
          /\ model = <<a.model>>
          /\ vocabulary = <<a.vocabulary>>
    /\ state = "Ready"
    /\ vocabulary_ = Unset
    /\ \E text \in Texts :
          calls = [t \in Threads |->
                      IF t = "t1" THEN [idle EXCEPT !.pc = "clean_text", !.text = text]
                      ELSE idle]
    /\ returned = EmptyBag

NextOneCall ==
    \E t \in Threads :
        \/ CleanText(t)
        \/ CheckVocabulary(t)
        \/ ValidateVocabulary(t)
        \/ CountVocab(t)
        \/ PredictProba(t)
        \/ Return(t)

SpecOneCall == InitOneCall /\ [][NextOneCall]_vars

(***************************************************************************)
(* The claims.                                                             *)
(***************************************************************************)
\* the calls whose clean_text has returned
Cleaned == {t \in Threads : calls[t].pc \notin {"idle", "clean_text"}}

\* the calls whose vectorizer.transform has returned
Transformed == {t \in Threads : calls[t].pc \in {"predict_proba", "return"}}

\* the elements of seq at the positions of the set keep, in order
AtPositions(seq, keep) ==
    [j \in 1..Cardinality(keep) |->
        seq[CHOOSE i \in keep : Cardinality({k \in keep : k <= i}) = j]]

\* C1: normalization is idempotent: cleaning a cleaned text gives the
\* cleaned text back.
C1_Idempotent ==
    \A t \in Cleaned : clean_text(calls[t].cleaned) = calls[t].cleaned

\* a text with punctuation between two spaces has been cleaned
C1_Witness ==
    \E t \in Cleaned :
        \E i \in DOMAIN calls[t].text :
            /\ i + 2 \in DOMAIN calls[t].text
            /\ calls[t].text[i] = " "
            /\ calls[t].text[i + 1] \in punctuation
            /\ calls[t].text[i + 2] = " "

\* the reference result of C2: the characters of text that are no ASCII
\* punctuation, each lowercased, without the spaces that follow a space
C2_Reference(text) ==
    LET deleted == AtPositions(text, {i \in DOMAIN text : text[i] \notin punctuation})
        lowered == [i \in DOMAIN deleted |->
                       IF \E k \in 1..26 : ascii_uppercase[k] = deleted[i]
                       THEN ascii_lowercase[CHOOSE k \in 1..26 : ascii_uppercase[k] = deleted[i]]
                       ELSE deleted[i]]
    IN AtPositions(lowered, {i \in DOMAIN lowered :
                                lowered[i] # " " \/ i = 1 \/ lowered[i - 1] # " "})

\* C2: clean_text(s) is s without its ASCII punctuation (deleted, not
\* replaced by a space), lowercased, each run of spaces folded into one
\* space; "Hello,   World!!" gives "hello world", "Don't STOP" gives
\* "dont stop", "" gives ""; tabs and newlines stay where they are.
C2_CleanTextIsReference ==
    \A t \in Cleaned :
        /\ calls[t].cleaned = C2_Reference(calls[t].text)
        /\ calls[t].text = Hello_World =>
              calls[t].cleaned = <<"h", "e", "l", "l", "o", " ", "w", "o", "r", "l", "d">>
        /\ calls[t].text = Dont_STOP =>
              calls[t].cleaned = <<"d", "o", "n", "t", " ", "s", "t", "o", "p">>
        /\ calls[t].text = <<>> => calls[t].cleaned = <<>>
        /\ SelectSeq(calls[t].cleaned, LAMBDA c : c \in {"\t", "\n"})
              = SelectSeq(calls[t].text, LAMBDA c : c \in {"\t", "\n"})

\* "Don't STOP" has been cleaned
C2_Witness == \E t \in Cleaned : calls[t].text = Dont_STOP

\* the stop-words that C3 names
C3_StopWords ==
    { <<"i">>, <<"w", "e">>, <<"y", "o", "u">>, <<"t", "h", "e">>,
      <<"a", "n", "d">>, <<"a", "m">>, <<"a", "r", "e">> }

love_movie == <<"l", "o", "v", "e", " ", "m", "o", "v", "i", "e">>
love_the == <<"l", "o", "v", "e", " ", "t", "h", "e">>
the_movie == <<"t", "h", "e", " ", "m", "o", "v", "i", "e">>

\* C3: stop-word removal precedes bigram construction: the n-grams are the
\* tokens that are no stop-word, followed by the adjacent pairs of these
\* tokens; with "love movie" in the vocabulary, "I love the movie" counts
\* "love movie" once and counts neither "love the" nor "the movie".
C3_StopWordsBeforeBigrams ==
    \A t \in Transformed :
        LET kept == SelectSeq(calls[t].tokens, LAMBDA w : w \notin C3_StopWords)
            pairs == [i \in 1..(Len(kept) - 1) |-> kept[i] \o <<" ">> \o kept[i + 1]]
            vocab == vocabulary[1]
            X == calls[t].X
        IN /\ calls[t].features = kept \o pairs
           /\ (calls[t].text = I_love_the_movie /\ love_movie \in DOMAIN vocab) =>
                 /\ X[vocab[love_movie] + 1] = 1
                 /\ love_the \in DOMAIN vocab => X[vocab[love_the] + 1] = 0
                 /\ the_movie \in DOMAIN vocab => X[vocab[the_movie] + 1] = 0

\* "I love the movie" has been transformed over a vocabulary that holds
\* "love movie", "love the" and "the movie"
C3_Witness ==
    \E t \in Transformed :
        /\ calls[t].text = I_love_the_movie
        /\ {love_movie, love_the, the_movie} \subseteq DOMAIN vocabulary[1]

RECURSIVE Sum(_)
Sum(seq) == IF seq = <<>> THEN 0 ELSE Head(seq) + Sum(Tail(seq))

\* the vocabulary pickled in the file: the loaded Vocabulary
LoadedVocabulary == disk.vocabulary_pkl.content

\* C4: the feature vector of every text is as long as the loaded
\* Vocabulary is large; an n-gram the Vocabulary lacks adds no count,
\* raises no error and does not extend the vector.
C4_VectorLength ==
    \A t \in Transformed :
        /\ Len(calls[t].X) = Cardinality(DOMAIN LoadedVocabulary)
        /\ Sum(calls[t].X) = Cardinality({i \in DOMAIN calls[t].features :
                                             calls[t].features[i] \in DOMAIN LoadedVocabulary})
        /\ calls[t].pc = "return" => calls[t].result[1] = "ok"

\* a text with an n-gram of the Vocabulary and one it lacks has been scored
C4_Witness ==
    \E t \in Threads :
        /\ calls[t].pc = "return"
        /\ \E i \in DOMAIN calls[t].features :
              calls[t].features[i] \in DOMAIN LoadedVocabulary
        /\ \E i \in DOMAIN calls[t].features :
              calls[t].features[i] \notin DOMAIN LoadedVocabulary

\* C5: analyze_text returns a number of the closed interval [0, 1] (0 to
\* 1000 thousandths) for every text.
C5_ResultInUnitInterval ==
    \A t \in Threads :
        calls[t].pc = "return" =>
            /\ calls[t].result[1] = "ok"
            /\ calls[t].result[2] >= 0
            /\ calls[t].result[2] <= 1000

\* a call is about to return 1, the upper end of the interval
C5_Witness ==
    \E t \in Threads : calls[t].pc = "return" /\ calls[t].result = <<"ok", 1000>>

\* the whitespace characters
whitespace == {" ", "\t", "\n", "\r"}

\* the maximal runs of characters of text that satisfy Member, in order,
\* those shorter than least left out
Runs(text, Member(_), least) ==
    LET starts == {i \in DOMAIN text :
                      Member(text[i]) /\ (i = 1 \/ ~Member(text[i - 1]))}
        endof(i) == CHOOSE j \in i..Len(text) :
                        /\ \A k \in i..j : Member(text[k])
                        /\ (j = Len(text) \/ ~Member(text[j + 1]))
        long == {i \in starts : endof(i) - i + 1 >= least}
        first == AtPositions([i \in DOMAIN text |-> i], long)
    IN [j \in DOMAIN first |-> SubSeq(text, first[j], endof(first[j]))]

\* the text is made of punctuation, whitespace and stop-words only: each
\* maximal run of characters that are no whitespace is, its punctuation
\* deleted and lowercased, empty or a stop-word
OnlyPunctuationAndStopWords(text) ==
    LET words == Runs(text, LAMBDA c : c \notin whitespace, 1)
    IN \A i \in DOMAIN words :
           LET w == C2_Reference(words[i]) IN w = <<>> \/ w \in C3_StopWords

\* C9: the empty string, a text of punctuation and stop-words only and a
\* text whose n-grams are all out of vocabulary raise no error: the vector
\* given to the classifier is all zero and the value returned is the
\* probability the model gives the all-zero vector.
C9_NothingToCount ==
    \A t \in Transformed :
        (\/ calls[t].text = <<>>
         \/ OnlyPunctuationAndStopWords(calls[t].text)
         \/ \A i \in DOMAIN calls[t].features :
                calls[t].features[i] \notin DOMAIN LoadedVocabulary)
        => /\ calls[t].X = [k \in 1..Cardinality(DOMAIN LoadedVocabulary) |-> 0]
           /\ calls[t].pc = "return" =>
                 calls[t].result =
                     <<"ok", expit(disk.model_pkl.content.intercept)>>

\* a text of stop-words only, one of them an n-gram of the Vocabulary, has
\* been scored
C9_Witness ==
    \E t \in Threads :
        /\ calls[t].pc = "return"
        /\ calls[t].text # <<>>
        /\ OnlyPunctuationAndStopWords(calls[t].text)
        /\ \E i \in DOMAIN calls[t].tokens : calls[t].tokens[i] \in DOMAIN LoadedVocabulary

\* C10 as claimed: the unigram stream before stop-word removal is the
\* sequence of the maximal runs of characters of the normalized text that
\* are no whitespace; no run is split or dropped.
C10_WhitespaceDelimited ==
    \A t \in Transformed :
        calls[t].tokens = Runs(calls[t].cleaned, LAMBDA c : c \notin whitespace, 1)

\* C10 as amended: the unigram stream before stop-word removal is the
\* sequence of the maximal runs of word characters (letters, digits,
\* underscore) of the normalized text that are two characters long at
\* least: a run of one character is dropped, and a character that is
\* neither a word character nor whitespace ends a token like whitespace.
C10_WordRunsOfTwo ==
    \A t \in Transformed :
        calls[t].tokens =
            Runs(calls[t].cleaned,
                 LAMBDA c : c \in Range(ascii_lowercase) \cup Range(ascii_uppercase)
                                     \cup digits \cup {"_"},
                 2)

\* a text with a run of one character and a run that a symbol outside
\* ASCII splits has been tokenized
C10_Witness ==
    \E t \in Transformed :
        LET runs == Runs(calls[t].cleaned, LAMBDA c : c \notin whitespace, 1)
        IN /\ \E i \in DOMAIN runs : Len(runs[i]) = 1
           /\ \E i \in DOMAIN runs : \E k \in DOMAIN runs[i] : runs[i][k] = "U+2019"
           /\ calls[t].tokens # <<>>

\* the results so far: those handed to the host and those about to be
Results ==
    BagToSet(returned)
        \cup {<<calls[t].text, calls[t].result>> : t \in {u \in Threads : calls[u].pc = "return"}}

\* C6: determinism: two calls of analyze_text with the same text have the
\* same result, whatever calls came before or between them.
C6_Deterministic ==
    \A e1, e2 \in Results : e1[1] = e2[1] => e1[2] = e2[2]

\* a text has been scored, then another text, and the first text is about
\* to return a second time
C6_Witness ==
    \E e1, e2 \in BagToSet(returned) :
        /\ e1[1] # e2[1]
        /\ \E t \in Threads : calls[t].pc = "return" /\ calls[t].text = e1[1]

\* both files loaded
BothLoaded == disk.model_pkl.status = "ok" /\ disk.vocabulary_pkl.status = "ok"

\* no call of analyze_text has been accepted or answered
NothingServed == returned = EmptyBag /\ \A t \in Threads : calls[t] = idle

\* C7: the service starts Uninitialized and loads the model file, then the
\* vocabulary file, once; if a load fails it is Failed for ever and no
\* scoring call returns; if both succeed it is Ready for ever; a scoring
\* call is served in Ready only.
C7_Lifecycle ==
    /\ state = "Uninitialized" /\ model = Unset /\ vocabulary = Unset
    /\ [](state \in {"Uninitialized", "ModelLoaded", "Failed", "Ready"})
    /\ [](state # "Ready" => NothingServed)
    /\ [](state = "Ready" => BothLoaded)
    /\ [](state = "ModelLoaded" => disk.model_pkl.status = "ok")
    /\ [](state = "Failed" => ~BothLoaded)
    /\ [][state = "Failed" => state' = "Failed"]_vars
    /\ [][state = "Ready" => state' = "Ready"]_vars
    /\ [][model # Unset => model' = model]_vars
    /\ [][vocabulary # Unset => vocabulary' = vocabulary]_vars

\* the model file loaded, the vocabulary file did not: Failed
C7_Witness ==
    /\ state = "Failed"
    /\ model # Unset
    /\ disk.vocabulary_pkl.status = "corrupt"

\* C8: whatever the interleaving of the calls of several threads, each
\* call returns what it returns when run alone: the classifier and the
\* vocabulary are what was loaded, and a call's vector is its own.
C8_ConcurrentCallsAsAlone ==
    /\ state = "Ready" =>
          /\ model = <<disk.model_pkl.content>>
          /\ vocabulary = <<LoadedVocabulary>>
          /\ vocabulary_ \in {Unset, vocabulary}
    /\ \A e \in Results :
          e[2] = analyze_text(e[1], disk.model_pkl.content, LoadedVocabulary)

\* one call is about to return while another call, of a text with another
\* vector, has its vector and has not yet used it
C8_Witness ==
    \E t, u \in Threads :
        /\ calls[t].pc = "return"
        /\ calls[u].pc = "predict_proba"
        /\ calls[t].X # calls[u].X

====
